---- MODULE Spec2Model ----
(***************************************************************************)
(* Model of modules/stake/types.go: the DelegateeBonds / DelegatorBonds    *)
(* collections, the voting-power recomputation, the active-set extraction  *)
(* and the validator-set diff.                                             *)
(*                                                                         *)
(* Go slices are 0-indexed, TLA+ sequences 1-indexed: the element the code *)
(* calls b[i] is b[i + 1] here.  Every operator that takes or returns an   *)
(* index takes or returns the code's 0-based index.                        *)
(***************************************************************************)
EXTENDS Integers, Sequences, FiniteSets

VARIABLES
    bonds,        \* the host's DelegateeBonds collection
    dbonds,       \* the host's DelegatorBonds collection
    minValBond,   \* package variable read by UpdateVotingPower
    maxVal,       \* package variable read by UpdateVotingPower
    lastValidators, \* the validator set the host published last
    ret           \* the last call: its name, its inputs and what it returned

vars == <<bonds, dbonds, minValBond, maxVal, lastValidators, ret>>

----------------------------------------------------------------------------
(* Bounds of the model *)

MaxBonds == 3      \* longest DelegateeBonds collection drawn by Init
MaxDBonds == 3     \* longest DelegatorBonds collection drawn by Init
MaxPrev == 2       \* longest previous validator set given to ValidatorsDiff
MaxMaxVal == 2     \* largest maxVal (package variable and parameter)

----------------------------------------------------------------------------
(* Decimal: an exact decimal number.  The number a Decimal holds is n, a   *)
(* count of 1/Scale units, so n = Scale is 1.0; the values drawn keep every *)
(* product exact (TotalBondTokens are whole numbers).  The type is a Go     *)
(* struct defined outside this file: rep stands for what the struct holds   *)
(* besides the number (where its digits are allocated, how they are      *)
(* scaled), so that two Decimals are the same struct value exactly when n   *)
(* and rep agree, and hold the same number when n agrees.                   *)

Scale == 2
Dec(n, rep) == [n |-> n, rep |-> rep]
\* the Decimal of u units, in the representation of the package's constants
Units(u) == Dec(u, 0)
Zero == Units(0)
Whole(k) == Units(k * Scale)
\* the representation of a result of arithmetic, newly allocated; the code
\* never compares two results with !=
NewRep == 0 - 1

Mul(a, b) == Dec((a.n * b.n) \div Scale, NewRep)
Add(a, b) == Dec(a.n + b.n, NewRep)
LT(a, b) == a.n < b.n
GT(a, b) == a.n > b.n
Equal(a, b) == a.n = b.n
\* integer part, truncated towards zero; the values here are never negative
\* and small, so uint64(IntPart()) is the same number
IntPart(a) == a.n \div Scale
\* Go's built-in != on two Decimal struct values: field by field
StructNotEqual(a, b) == a # b

----------------------------------------------------------------------------
(* sdk.Actor: strings and byte slices are sequences of byte values.        *)

RECURSIVE BytesCompare(_, _)
\* bytes.Compare: -1, 0 or 1, lexicographic, a proper prefix being smaller
BytesCompare(s, t) ==
    IF s = <<>> /\ t = <<>> THEN 0
    ELSE IF s = <<>> THEN -1
    ELSE IF t = <<>> THEN 1
    ELSE IF Head(s) < Head(t) THEN -1
    ELSE IF Head(s) > Head(t) THEN 1
    ELSE BytesCompare(Tail(s), Tail(t))

\* Go's < and > on strings compare them bytewise
StrLess(s, t) == BytesCompare(s, t) = -1
StrGreater(s, t) == BytesCompare(s, t) = 1
BytesEqual(s, t) == s = t

ActorA == [ChainID |-> <<1>>, App |-> <<1>>, Address |-> <<1>>]
ActorB == [ChainID |-> <<1>>, App |-> <<1>>, Address |-> <<1, 0>>]
ActorC == [ChainID |-> <<1>>, App |-> <<2>>, Address |-> <<1>>]
ActorD == [ChainID |-> <<2>>, App |-> <<1>>, Address |-> <<0>>]
Actors == {ActorA, ActorB, ActorC, ActorD}

\* sdk.Actor.Equals
ActorEquals(a, b) ==
    /\ a.ChainID = b.ChainID
    /\ a.App = b.App
    /\ BytesEqual(a.Address, b.Address)

----------------------------------------------------------------------------
(* DelegateeBond and the sort interface of DelegateeBonds                  *)

DelegateeBond(d, rate, tokens, vp) ==
    [Delegatee |-> d, ExchangeRate |-> rate, TotalBondTokens |-> tokens,
     VotingPower |-> vp]

\* DelegateeBond.Validator: the abci.Validator of a bond
Validator(b) == [PubKey |-> b.Delegatee.Address, Power |-> IntPart(b.VotingPower)]

\* DelegateeBonds.Len
Len0(b) == Len(b)

\* a faulty Swap: b[i] = b[j] alone
SwapOnlyFirst(b, i, j) == [b EXCEPT ![i + 1] = b[j + 1]]
\* DelegateeBonds.Swap
Swap(b, i, j) == [b EXCEPT ![i + 1] = b[j + 1], ![j + 1] = b[i + 1]]

\* DelegateeBonds.Less; vp1 != vp2 is the built-in comparison of the two
\* structs, not Equal: two Decimals that hold the same number in different
\* representations are !=, and neither is GT the other
Less(b, i, j) ==
    LET vp1 == b[i + 1].VotingPower
        vp2 == b[j + 1].VotingPower
        d1 == b[i + 1].Delegatee
        d2 == b[j + 1].Delegatee
    IN  IF StructNotEqual(vp1, vp2) THEN GT(vp1, vp2)
        ELSE IF StrLess(d1.ChainID, d2.ChainID) THEN TRUE
        ELSE IF StrGreater(d1.ChainID, d2.ChainID) THEN FALSE
        ELSE IF StrLess(d1.App, d2.App) THEN TRUE
        ELSE IF StrGreater(d1.App, d2.App) THEN FALSE
        ELSE BytesCompare(d1.Address, d2.Address) = -1

RECURSIVE InsertDown(_, _)
\* the inner loop of sort.Sort's insertion sort:
\*   for j := i; j > 0 && data.Less(j, j-1); j-- { data.Swap(j, j-1) }
InsertDown(b, j) ==
    IF j > 0 /\ Less(b, j, j - 1) THEN InsertDown(Swap(b, j, j - 1), j - 1) ELSE b

RECURSIVE InsertionSort(_, _)
\* the outer loop: for i := 1; i < n; i++
InsertionSort(b, i) ==
    IF i < Len0(b) THEN InsertionSort(InsertDown(b, i), i + 1) ELSE b

\* DelegateeBonds.Sort: sort.Sort, which sorts a slice this short by insertion
Sort(b) == InsertionSort(b, 1)

----------------------------------------------------------------------------
(* UpdateVotingPower                                                       *)

\* bv.VotingPower = v inside `for _, bv := range b`: bv is a copy of the
\* element, so the write never reaches the collection
SetRangeVarVotingPower(b, i, v) == b

RECURSIVE FloorLoop(_, _, _)
\* the first loop, from element i on
FloorLoop(b, i, minBond) ==
    IF i >= Len0(b) THEN b
    ELSE LET bv == b[i + 1]
             vp == Mul(bv.TotalBondTokens, bv.ExchangeRate)
         IN  IF LT(vp, minBond)
             THEN FloorLoop(SetRangeVarVotingPower(b, i, Zero), i + 1, minBond)
             ELSE FloorLoop(SetRangeVarVotingPower(b, i, vp), i + 1, minBond)

RECURSIVE TruncateLoop(_, _, _, _)
\* the second loop, from element i on: the collection and the running total
TruncateLoop(b, i, max, totalPower) ==
    IF i >= Len0(b) THEN [b |-> b, totalPower |-> totalPower]
    ELSE LET bv == b[i + 1]
         IN  IF i <= max
             THEN TruncateLoop(b, i + 1, max, Add(totalPower, bv.VotingPower))
             ELSE TruncateLoop(SetRangeVarVotingPower(b, i, Zero), i + 1, max, totalPower)

\* the collection after the call and the total it returns
UpdateVotingPower(b, minBond, max) ==
    TruncateLoop(Sort(FloorLoop(b, 0, minBond)), 0, max, Zero)

----------------------------------------------------------------------------
(* GetValidators, ValidatorsDiff, getValidatorPower                        *)

RECURSIVE GetValidatorsFrom(_, _, _)
\* the loop of GetValidators from element i on, validators being the slice
\* built so far; it stops at the first element whose VotingPower is Zero
GetValidatorsFrom(b, i, validators) ==
    IF i >= Len0(b) THEN validators
    ELSE IF Equal(b[i + 1].VotingPower, Zero) THEN validators
    ELSE GetValidatorsFrom(b, i + 1, Append(validators, Validator(b[i + 1])))

\* max is only the capacity of the slice that is allocated (max >= 0: make
\* panics on a negative capacity)
GetValidators(b, max) == GetValidatorsFrom(b, 0, <<>>)

RECURSIVE getValidatorPowerFrom(_, _, _)
getValidatorPowerFrom(set, pubKey, k) ==
    IF k > Len(set) THEN 0
    ELSE IF BytesEqual(set[k].PubKey, pubKey) THEN set[k].Power
    ELSE getValidatorPowerFrom(set, pubKey, k + 1)

\* the power of the first validator of the set with that key, 0 if none
getValidatorPower(set, pubKey) == getValidatorPowerFrom(set, pubKey, 1)

RECURSIVE DiffFrom(_, _, _, _)
\* the loop of ValidatorsDiff over previous, from its k-th entry on
DiffFrom(new, previous, k, diff) ==
    IF k > Len(previous) THEN diff
    ELSE LET prev == previous[k]
             currentPower == getValidatorPower(new, prev.PubKey)
         IN  IF currentPower # prev.Power
             THEN DiffFrom(new, previous, k + 1,
                           Append(diff, [PubKey |-> prev.PubKey, Power |-> currentPower]))
             ELSE DiffFrom(new, previous, k + 1, diff)

\* a faulty ValidatorsDiff: a record for every previous entry, changed or not
ValidatorsDiffAll(b, previous, max) ==
    LET new == GetValidators(b, max)
    IN  [k \in 1..Len(previous) |->
            [PubKey |-> previous[k].PubKey,
             Power |-> getValidatorPower(new, previous[k].PubKey)]]
\* DelegateeBonds.ValidatorsDiff
ValidatorsDiff(b, previous, max) == DiffFrom(GetValidators(b, max), previous, 1, <<>>)

----------------------------------------------------------------------------
(* Get and Remove, on DelegateeBonds and on DelegatorBonds                 *)

\* A returned pointer: nil, or the address of the loop variable bv, which
\* holds a copy of the element ("copy"); "elem" would be the address of the
\* element b[at] itself.
NilPtr == [kind |-> "nil", at |-> 0, val |-> <<>>]
CopyPtr(v) == [kind |-> "copy", at |-> 0, val |-> v]

RECURSIVE GetFrom(_, _, _)
GetFrom(b, delegatee, i) ==
    IF i >= Len(b) THEN [idx |-> 0, ptr |-> NilPtr]
    ELSE IF ActorEquals(b[i + 1].Delegatee, delegatee)
         THEN [idx |-> i, ptr |-> CopyPtr(b[i + 1])]
         ELSE GetFrom(b, delegatee, i + 1)

\* a faulty Get: the address of the element, &b[i]
GetAlias(b, delegatee) ==
    LET r == GetFrom(b, delegatee, 0)
    IN  IF r.ptr.kind = "nil" THEN r
        ELSE [idx |-> r.idx,
              ptr |-> [kind |-> "elem", at |-> r.idx, val |-> b[r.idx + 1]]]

\* a faulty Get: element zero when nothing matches
GetElemZero(b, delegatee) ==
    LET r == GetFrom(b, delegatee, 0)
    IN  IF r.ptr.kind = "nil" /\ Len(b) > 0
        THEN [idx |-> 0, ptr |-> CopyPtr(b[1])]
        ELSE r

\* DelegateeBonds.Get
Get(b, delegatee) == GetFrom(b, delegatee, 0)

RECURSIVE DGetFrom(_, _, _)
DGetFrom(b, delegatee, i) ==
    IF i >= Len(b) THEN [idx |-> 0, ptr |-> NilPtr]
    ELSE IF /\ BytesEqual(b[i + 1].Delegatee.Address, delegatee.Address)
            /\ b[i + 1].Delegatee.ChainID = delegatee.ChainID
            /\ b[i + 1].Delegatee.App = delegatee.App
         THEN [idx |-> i, ptr |-> CopyPtr(b[i + 1])]
         ELSE DGetFrom(b, delegatee, i + 1)

\* DelegatorBonds.Get
DGet(b, delegatee) == DGetFrom(b, delegatee, 0)

\* append(b[:i], b[i+1:]...): the elements after i move down one place in
\* the backing array.  out is the slice returned; view is what the caller's
\* own slice, still of the old length, shows afterwards.
RemoveAt(b, i) ==
    LET out == [k \in 1..(Len(b) - 1) |-> IF k <= i THEN b[k] ELSE b[k + 1]]
    IN  [out |-> out, err |-> FALSE, view |-> Append(out, b[Len(b)])]

\* a faulty Remove: i > len(b) as the upper bound test
RemoveLax(b, i) ==
    IF i < 0 THEN [out |-> b, err |-> TRUE, view |-> b]
    ELSE IF i > Len(b) THEN [out |-> b, err |-> TRUE, view |-> b]
    ELSE IF i = Len(b) THEN [out |-> b, err |-> FALSE, view |-> b]
    ELSE RemoveAt(b, i)
\* DelegateeBonds.Remove
Remove(b, i) ==
    IF i < 0 THEN [out |-> b, err |-> TRUE, view |-> b]
    ELSE IF i >= Len(b) THEN [out |-> b, err |-> TRUE, view |-> b]
    ELSE RemoveAt(b, i)

\* DelegatorBonds.Remove
DRemove(b, i) ==
    IF i < 0 THEN [out |-> b, err |-> TRUE, view |-> b]
    ELSE IF i >= Len(b) THEN [out |-> b, err |-> TRUE, view |-> b]
    ELSE RemoveAt(b, i)

----------------------------------------------------------------------------
(* DelegatorBond                                                           *)

DelegatorBond(d, tokens) == [Delegatee |-> d, BondTokens |-> tokens]

----------------------------------------------------------------------------
(* The state after construction: the collections the host hands over, drawn *)
(* from small sets.                                                         *)

\* the sequences over S of length at most n
SeqUpTo(S, n) == UNION {[1..k -> S] : k \in 0..n}

DistinctIdentities(b) ==
    \A i, j \in 1..Len(b) : i # j => ~ActorEquals(b[i].Delegatee, b[j].Delegatee)

\* (TotalBondTokens, ExchangeRate): bond values 1.0 and 1.5
BondInputs == {<<Whole(1), Units(Scale)>>, <<Whole(3), Units(Scale \div 2)>>}
\* VotingPower values left by an earlier computation: 0, 0.5, 1.0, 3.0
StalePowers == {Units(0), Units(Scale \div 2), Units(Scale), Units(3 * Scale)}
\* the same number held in another representation
Other(d) == Dec(d.n, 1)
\* minimum bonds 0.5 and 1.5
MinBonds == {Units(Scale \div 2), Units((3 * Scale) \div 2)}

NoRet ==
    [op |-> "none", pre |-> <<>>, i |-> 0, j |-> 0, who |-> ActorA, prev |-> <<>>,
     max |-> 0, totalPower |-> Zero, validators |-> <<>>, idx |-> 0,
     ptr |-> NilPtr, err |-> FALSE, view |-> <<>>]

BondsOver(actors, powers) ==
    {DelegateeBond(d, in[2], in[1], vp) : d \in actors, in \in BondInputs, vp \in powers}

\* the validator sets published before: keys of candidates, powers 0, 1, 3
PreviousSets ==
    SeqUpTo([PubKey : {ActorA.Address, ActorB.Address}, Power : {0, 1, 3}], MaxPrev)

\* three candidates with bond values 10, 30 and 30, their VotingPower either
\* never computed or left at the bond value
ExampleBonds ==
    {<<DelegateeBond(ActorC, Units(Scale), Whole(10), IF fresh THEN Zero ELSE Whole(10)),
       DelegateeBond(ActorB, Units(Scale), Whole(30), IF fresh THEN Zero ELSE Whole(30)),
       DelegateeBond(ActorA, Units(Scale), Whole(30), IF fresh THEN Zero ELSE Whole(30))>> :
        fresh \in BOOLEAN}

\* the powers 0, 1.0 and 3.0, each in two representations
VPPowers ==
    LET ps == StalePowers \ {Units(Scale \div 2)}
    IN  ps \cup {Other(d) : d \in ps}

\* the collections given to the voting-power engine: distinct candidates
InitVP ==
    /\ \/ /\ bonds \in {b \in SeqUpTo(BondsOver(Actors, VPPowers),
                                       MaxBonds) :
                            DistinctIdentities(b)}
          /\ minValBond \in MinBonds
          /\ maxVal \in 0..MaxMaxVal
       \/ /\ bonds \in ExampleBonds
          /\ minValBond = Whole(5)
          /\ maxVal = 2
    /\ dbonds = <<>>
    /\ lastValidators = <<>>
    /\ ret = NoRet

\* the collections given to the active-set extraction and to the differ
InitVal ==
    /\ bonds \in {b \in SeqUpTo({DelegateeBond(d, Units(Scale), Whole(1), vp) :
                                    d \in {ActorA, ActorB, ActorC}, vp \in StalePowers},
                                MaxBonds) :
                    DistinctIdentities(b)}
    /\ dbonds = <<>>
    /\ minValBond = Units(Scale \div 2)
    /\ maxVal \in 0..MaxMaxVal
    /\ lastValidators \in PreviousSets
    /\ ret = NoRet

\* the collections given to lookup and removal; the two collections share
\* nothing, and a run holds one of them
InitColl ==
    /\ \/ /\ bonds \in SeqUpTo({DelegateeBond(d, Units(Scale), Whole(1), vp) :
                                    d \in Actors, vp \in {Zero, Units(Scale)}}, MaxBonds)
          /\ dbonds = <<>>
       \/ /\ bonds = <<>>
          /\ dbonds \in SeqUpTo({DelegatorBond(d, t) :
                                    d \in Actors, t \in {Whole(1), Whole(2)}}, MaxDBonds)
    /\ minValBond = Units(Scale \div 2)
    /\ maxVal = MaxMaxVal
    /\ lastValidators = <<>>
    /\ ret = NoRet

\* every operation of DelegateeBonds, on any collection of candidates
Init ==
    /\ bonds \in SeqUpTo({DelegateeBond(d, Units(Scale), Whole(1), vp) :
                            d \in {ActorA, ActorB, ActorC}, vp \in {Zero, Units(Scale)}}, MaxBonds)
    /\ dbonds = <<DelegatorBond(ActorA, Whole(1))>>
    /\ minValBond = Units(Scale \div 2)
    /\ maxVal = MaxMaxVal
    /\ lastValidators \in SeqUpTo([PubKey : {ActorA.Address}, Power : {1}], 1)
    /\ ret = NoRet

----------------------------------------------------------------------------
(* One action per operation                                                *)

Call(name) == [NoRet EXCEPT !.op = name, !.pre = bonds]

DoUpdateVotingPower ==
    LET r == UpdateVotingPower(bonds, minValBond, maxVal)
    IN  /\ bonds' = r.b
        /\ ret' = [Call("UpdateVotingPower") EXCEPT !.totalPower = r.totalPower]
        /\ UNCHANGED <<dbonds, minValBond, maxVal, lastValidators>>

\* the host calls the exported Swap itself; an index outside the slice
\* panics and changes nothing
DoSwap ==
    \E i, j \in 0..(Len0(bonds) - 1) :
        /\ bonds' = Swap(bonds, i, j)
        /\ ret' = [Call("Swap") EXCEPT !.i = i, !.j = j]
        /\ UNCHANGED <<dbonds, minValBond, maxVal, lastValidators>>

DoSort ==
    /\ bonds' = Sort(bonds)
    /\ ret' = Call("Sort")
    /\ UNCHANGED <<dbonds, minValBond, maxVal, lastValidators>>

\* the host passes the package's maxVal
DoGetValidators ==
    /\ ret' = [Call("GetValidators") EXCEPT
                  !.max = maxVal, !.validators = GetValidators(bonds, maxVal)]
    /\ UNCHANGED <<bonds, dbonds, minValBond, maxVal, lastValidators>>

DoValidatorsDiff ==
    /\ ret' = [Call("ValidatorsDiff") EXCEPT
                  !.prev = lastValidators, !.max = maxVal,
                  !.validators = ValidatorsDiff(bonds, lastValidators, maxVal)]
    /\ UNCHANGED <<bonds, dbonds, minValBond, maxVal, lastValidators>>

DoGet ==
    \E delegatee \in Actors :
        LET r == Get(bonds, delegatee)
        IN  /\ ret' = [Call("Get") EXCEPT !.who = delegatee, !.idx = r.idx, !.ptr = r.ptr]
            /\ UNCHANGED <<bonds, dbonds, minValBond, maxVal, lastValidators>>

\* the host keeps the slice Remove returns: bonds, err = bonds.Remove(i)
DoRemove ==
    \E i \in -1..(Len(bonds) + 1) :
        LET r == Remove(bonds, i)
        IN  /\ bonds' = r.out
            /\ ret' = [Call("Remove") EXCEPT !.i = i, !.err = r.err, !.view = r.view]
            /\ UNCHANGED <<dbonds, minValBond, maxVal, lastValidators>>

DoDGet ==
    \E delegatee \in Actors :
        LET r == DGet(dbonds, delegatee)
        IN  /\ ret' = [Call("DGet") EXCEPT
                          !.pre = dbonds, !.who = delegatee, !.idx = r.idx, !.ptr = r.ptr]
            /\ UNCHANGED <<bonds, dbonds, minValBond, maxVal, lastValidators>>

DoDRemove ==
    \E i \in -1..(Len(dbonds) + 1) :
        LET r == DRemove(dbonds, i)
        IN  /\ dbonds' = r.out
            /\ ret' = [Call("DRemove") EXCEPT
                          !.pre = dbonds, !.i = i, !.err = r.err, !.view = r.view]
            /\ UNCHANGED <<bonds, minValBond, maxVal, lastValidators>>

\* The caller writes a field of the record Get returned, through the pointer:
\* bond.TotalBondTokens = v.  The write lands where the pointer points.
DoWriteThroughGet ==
    /\ ret.op = "Get"
    /\ ret.ptr.kind # "nil"
    /\ \E v \in {Whole(5)} :
        IF ret.ptr.kind = "elem"
        THEN /\ bonds' = [bonds EXCEPT ![ret.ptr.at + 1].TotalBondTokens = v]
             /\ ret' = [ret EXCEPT !.op = "WriteThroughGet", !.pre = bonds,
                                   !.ptr.val.TotalBondTokens = v]
        ELSE /\ bonds' = bonds
             /\ ret' = [ret EXCEPT !.op = "WriteThroughGet", !.pre = bonds,
                                   !.ptr.val.TotalBondTokens = v]
    /\ UNCHANGED <<dbonds, minValBond, maxVal, lastValidators>>

\* the same on a DelegatorBond: bond.BondTokens = v
DoWriteThroughDGet ==
    /\ ret.op = "DGet"
    /\ ret.ptr.kind # "nil"
    /\ \E v \in {Whole(5)} :
        IF ret.ptr.kind = "elem"
        THEN /\ dbonds' = [dbonds EXCEPT ![ret.ptr.at + 1].BondTokens = v]
             /\ ret' = [ret EXCEPT !.op = "WriteThroughDGet", !.pre = dbonds,
                                   !.ptr.val.BondTokens = v]
        ELSE /\ dbonds' = dbonds
             /\ ret' = [ret EXCEPT !.op = "WriteThroughDGet", !.pre = dbonds,
                                   !.ptr.val.BondTokens = v]
    /\ UNCHANGED <<bonds, minValBond, maxVal, lastValidators>>

NextVP == DoUpdateVotingPower \/ DoSort
NextVal == DoGetValidators \/ DoValidatorsDiff
NextColl ==
    \/ DoGet
    \/ DoRemove
    \/ DoDGet
    \/ DoDRemove
    \/ DoWriteThroughGet
    \/ DoWriteThroughDGet

Next ==
    \/ DoUpdateVotingPower
    \/ DoSort
    \/ DoSwap
    \/ DoGetValidators
    \/ DoValidatorsDiff
    \/ DoGet
    \/ DoRemove
    \/ DoDGet
    \/ DoDRemove
    \/ DoWriteThroughGet
    \/ DoWriteThroughDGet

Spec == Init /\ [][Next]_vars
SpecVP == InitVP /\ [][NextVP]_vars
SpecVal == InitVal /\ [][NextVal]_vars
SpecColl == InitColl /\ [][NextColl]_vars

----------------------------------------------------------------------------
(* Helpers of the properties                                               *)

\* the bond value of a candidate
BondValue(c) == (c.TotalBondTokens.n * c.ExchangeRate.n) \div Scale
\* the number its VotingPower holds
Power(c) == c.VotingPower.n

\* identity a comes before identity b: chain id, then application id, then
\* address bytes, each compared lexicographically
Precedes(a, b) ==
    \/ BytesCompare(a.ChainID, b.ChainID) < 0
    \/ /\ a.ChainID = b.ChainID
       /\ BytesCompare(a.App, b.App) < 0
    \/ /\ a.ChainID = b.ChainID
       /\ a.App = b.App
       /\ BytesCompare(a.Address, b.Address) < 0

\* how often x occurs in the sequence s
Count(s, x) == Cardinality({k \in 1..Len(s) : s[k] = x})
Range(s) == {s[k] : k \in 1..Len(s)}
SameElements(s, t) ==
    /\ Len(s) = Len(t)
    /\ \A x \in Range(s) \cup Range(t) : Count(s, x) = Count(t, x)

RECURSIVE SumVotingPower(_)
SumVotingPower(b) ==
    IF b = <<>> THEN 0 ELSE Power(Head(b)) + SumVotingPower(Tail(b))

\* the length of the longest prefix of b whose VotingPower is nonzero
ActivePrefix(b) ==
    CHOOSE n \in 0..Len(b) :
        /\ \A k \in 1..n : Power(b[k]) # 0
        /\ n < Len(b) => Power(b[n + 1]) = 0

\* the power a key has in the active set of b: that of the first active
\* candidate with this address, 0 if there is none
ActivePower(b, key) ==
    LET at == {k \in 1..ActivePrefix(b) : b[k].Delegatee.Address = key}
    IN  IF at = {} THEN 0
        ELSE LET first == CHOOSE k \in at : \A j \in at : k <= j
             IN  Power(b[first]) \div Scale

----------------------------------------------------------------------------
(* C1 - C4: UpdateVotingPower                                              *)

\* C1: after UpdateVotingPower every candidate whose bond value is below
\* minValBond has VotingPower 0 in the collection, and every candidate at or
\* above it, at a rank that is not truncated, has its bond value as
\* VotingPower, whatever VotingPower it held before.
C1_FloorEnforcement ==
    ret.op = "UpdateVotingPower" =>
        \A k \in 1..Len(bonds) :
            /\ BondValue(bonds[k]) < minValBond.n => Power(bonds[k]) = 0
            /\ (BondValue(bonds[k]) >= minValBond.n /\ k <= maxVal) =>
                   Power(bonds[k]) = BondValue(bonds[k])

\* C2: after UpdateVotingPower on more than maxVal distinct candidates that
\* are all at or above the floor, exactly the first maxVal candidates of the
\* collection have a nonzero VotingPower, and they are the maxVal highest by
\* bond value, ties by identity.
C2_Truncation ==
    (/\ ret.op = "UpdateVotingPower"
     /\ Len(bonds) > maxVal
     /\ DistinctIdentities(bonds)
     /\ \A k \in 1..Len(bonds) : BondValue(bonds[k]) >= minValBond.n) =>
        /\ Cardinality({k \in 1..Len(bonds) : Power(bonds[k]) # 0}) = maxVal
        /\ \A k \in 1..Len(bonds) : Power(bonds[k]) # 0 <=> k <= maxVal
        /\ \A k \in 1..maxVal : \A j \in (maxVal + 1)..Len(bonds) :
              \/ BondValue(bonds[k]) > BondValue(bonds[j])
              \/ /\ BondValue(bonds[k]) = BondValue(bonds[j])
                 /\ Precedes(bonds[k].Delegatee, bonds[j].Delegatee)

\* C3: the total UpdateVotingPower returns is the sum of the VotingPower of
\* all entries as they stand after the call; for the three candidates with
\* bond values 30, 30 and 10, minValBond 5 and maxVal 2, the candidate with
\* bond value 10 ends with VotingPower 0 and the total is 60.
C3_TotalActivePower ==
    ret.op = "UpdateVotingPower" =>
        /\ ret.totalPower.n = SumVotingPower(bonds)
        /\ ret.pre \in ExampleBonds =>
              /\ \A k \in 1..Len(bonds) :
                    BondValue(bonds[k]) = 10 * Scale => Power(bonds[k]) = 0
              /\ ret.totalPower.n = 60 * Scale

----------------------------------------------------------------------------
(* C5, C6: GetValidators and ValidatorsDiff                                *)

\* C5: GetValidators(maxVal) returns at most maxVal entries, and when the
\* nonzero prefix of the collection has no more than maxVal entries, it
\* returns exactly the (address, integer power) pairs of that prefix, in
\* order.
C5_ActiveSetExtraction ==
    ret.op = "GetValidators" =>
        /\ Len(ret.validators) <= ret.max
        /\ ActivePrefix(bonds) <= ret.max =>
              /\ Len(ret.validators) = ActivePrefix(bonds)
              /\ \A k \in 1..ActivePrefix(bonds) :
                    ret.validators[k] =
                        [PubKey |-> bonds[k].Delegatee.Address,
                         Power |-> Power(bonds[k]) \div Scale]

\* the entries of previous whose power in the active set of b differs
Changed(b, previous) ==
    {k \in 1..Len(previous) : ActivePower(b, previous[k].PubKey) # previous[k].Power}

\* C6: ValidatorsDiff returns, in the order of previous, one record
\* (key, new power) for each previous entry whose power in the new active set
\* (0 when its key is absent) differs from its previous power, and nothing
\* else.
C6_ValidatorSetDiff ==
    ret.op = "ValidatorsDiff" =>
        LET changed == Changed(bonds, ret.prev)
            nth(m) == CHOOSE k \in changed :
                          Cardinality({j \in changed : j < k}) = m - 1
        IN  /\ Len(ret.validators) = Cardinality(changed)
            /\ \A m \in 1..Cardinality(changed) :
                  ret.validators[m] =
                      [PubKey |-> ret.prev[nth(m)].PubKey,
                       Power |-> ActivePower(bonds, ret.prev[nth(m)].PubKey)]

\* previous {(A, 1), (B, 1)} against an active set {(B, 3), (A, 1)}: the
\* diff is exactly {(B, 3)}
C6_Witness ==
    /\ ret.op = "ValidatorsDiff"
    /\ ret.prev = <<[PubKey |-> ActorA.Address, Power |-> 1],
                    [PubKey |-> ActorB.Address, Power |-> 1]>>
    /\ Len(bonds) = 2
    /\ bonds[1].Delegatee = ActorB /\ bonds[1].VotingPower = Whole(3)
    /\ bonds[2].Delegatee = ActorA /\ bonds[2].VotingPower = Whole(1)
    /\ ret.validators = <<[PubKey |-> ActorB.Address, Power |-> 3]>>

----------------------------------------------------------------------------
(* C7, C8, C10: Remove and Get                                             *)

\* the collection a call worked on, as it stands after the call
After == IF ret.op \in {"Remove", "Get", "WriteThroughGet"} THEN bonds ELSE dbonds

\* C7: Remove(i) on a collection of length n returns an error exactly when
\* i < 0 or i >= n, and then the returned collection and the caller's are the
\* original; otherwise it returns the n - 1 other elements in their order.
C7_RemoveBoundsAndEffect ==
    ret.op \in {"Remove", "DRemove"} =>
        LET n == Len(ret.pre)
        IN  /\ ret.err <=> (ret.i < 0 \/ ret.i >= n)
            /\ ret.err => (After = ret.pre /\ ret.view = ret.pre)
            /\ ~ret.err =>
                  /\ Len(After) = n - 1
                  /\ \A k \in 1..(n - 1) :
                        After[k] = IF k <= ret.i THEN ret.pre[k] ELSE ret.pre[k + 1]

\* Remove(0) on three different DelegatorBonds leaves the second and third
C7_Witness ==
    /\ ret.op = "DRemove"
    /\ ret.i = 0
    /\ ~ret.err
    /\ Len(ret.pre) = 3
    /\ Cardinality(Range(ret.pre)) = 3
    /\ dbonds = <<ret.pre[2], ret.pre[3]>>

\* C8: Get(identity) on a collection that holds the identity returns the
\* index of the first entry with it and a record equal to that element; on a
\* collection that does not, it returns nil, which no match returns.
C8_LookupCorrectness ==
    ret.op \in {"Get", "DGet"} =>
        LET at == {k \in 1..Len(ret.pre) : ret.pre[k].Delegatee = ret.who}
        IN  IF at # {}
            THEN /\ ret.ptr.kind # "nil"
                 /\ ret.idx + 1 \in at
                 /\ \A k \in at : ret.idx + 1 <= k
                 /\ ret.ptr.val = ret.pre[ret.idx + 1]
            ELSE ret.ptr.kind = "nil"

\* the identity is held twice, with different fields, the first time at
\* index 1
C8_Witness ==
    /\ ret.op = "Get"
    /\ ret.idx = 1
    /\ ret.ptr.kind # "nil"
    /\ Len(bonds) = 3
    /\ bonds[3].Delegatee = ret.who
    /\ bonds[3] # bonds[2]

\* C10: a write to a field of the record Get returned does not reach the
\* collection: the element at the returned index keeps its value.
C10_GetReturnsDetachedCopy ==
    ret.op \in {"WriteThroughGet", "WriteThroughDGet"} =>
        /\ After = ret.pre
        /\ After[ret.idx + 1] # ret.ptr.val
        /\ ret.op = "WriteThroughGet" =>
              After[ret.idx + 1].TotalBondTokens # ret.ptr.val.TotalBondTokens
        /\ ret.op = "WriteThroughDGet" =>
              After[ret.idx + 1].BondTokens # ret.ptr.val.BondTokens

C10_Witness ==
    /\ ret.op = "WriteThroughGet"
    /\ ret.idx = 2
    /\ ret.ptr.val.TotalBondTokens = Whole(5)
    /\ bonds[3].TotalBondTokens = Whole(1)

----------------------------------------------------------------------------
(* C9: who writes VotingPower                                              *)

\* C9: GetValidators, ValidatorsDiff and Get leave the collection as it is;
\* Sort and Swap only reorder its candidates; Remove only takes candidates
\* away: no field of a candidate that stays changes in any of them.
C9_SingleWriterOfVotingPower ==
    [][/\ ret'.op \in {"GetValidators", "ValidatorsDiff", "Get"} => bonds' = bonds
       /\ ret'.op \in {"Sort", "Swap"} => SameElements(bonds', bonds)
       /\ ret'.op = "Remove" =>
             /\ Len(bonds') \in {Len(bonds), Len(bonds) - 1}
             /\ \A x \in Range(bonds') : Count(bonds', x) <= Count(bonds, x)]_vars

\* Sort reordered three candidates with nonzero VotingPower
C9_Witness ==
    /\ ret.op = "Sort"
    /\ Len(bonds) = 3
    /\ bonds # ret.pre
    /\ Power(bonds[3]) # 0

====
